---- MODULE Spec2Model ----
(***************************************************************************)
(* SlotInsight (src/app.py): the analytics a script run computes from the  *)
(* filtered transaction log, and the replay ("PnL Evolution") whose        *)
(* position lives in st.session_state between script runs.                 *)
(*                                                                         *)
(* Numbers.  Amounts are integers.  A quotient the code computes in        *)
(* floating point is kept exact, as the pair [num, den]; den = 0 is the    *)
(* undefined value (NaN, inf, ZeroDivisionError).  Timestamps are integer  *)
(* ticks; a moment handed to plot_snapshot is kept in grid units, ticks    *)
(* times (periods - 1), so that the evenly spaced checkpoints of           *)
(* pd.date_range are exact.  Axis ranges are kept in tenths (1.1 * x is    *)
(* 11 * x tenths).                                                         *)
(***************************************************************************)
EXTENDS Integers, Sequences, FiniteSets, TLC

\* Longest uploaded log, in rows.
MaxTx == 3
\* Ticks of create_date in one calendar day.
TicksPerDay == 4

\* pd.date_range(..., periods=100)
periods == 100

VARIABLES
    df,                  \* the uploaded log, rows in file order
    date_range,          \* sidebar date_input value, a tuple of dates
    selected_gids,       \* sidebar multiselect value
    target_user,         \* the selectbox of the single-user insight
    current_time_index,  \* st.session_state.current_time_index
    is_playing,          \* st.session_state.is_playing
    pc,                  \* where the script stands: "idle", "loop", "chart"
    i,                   \* the play loop's variable
    fig,                 \* the figure the loop has built and not yet drawn
    run,                 \* the play run under way: start index, frames drawn
    shown,               \* what the placeholder shows
    report               \* the metrics of the last script run

vars == <<df, date_range, selected_gids, target_user, current_time_index,
          is_playing, pc, i, fig, run, shown, report>>

-----------------------------------------------------------------------------
(* Arithmetic helpers *)

Abs(x) == IF x < 0 THEN -x ELSE x

\* F applied to the value of v, v worked out once.
With(v, F(_)) == CHOOSE y \in {F(w) : w \in {v}} : TRUE

SetMax(S) == CHOOSE x \in S : \A y \in S : y <= x
SetMin(S) == CHOOSE x \in S : \A y \in S : x <= y

\* A float quotient n / d, exact.
Quot(n, d) == [num |-> n, den |-> d]
\* The literal 0 / 0.0 of a guarded ratio.
Zero == [num |-> 0, den |-> 1]

Defined(q) == q.den # 0
IsZero(q) == q.den # 0 /\ q.num = 0

\* q <= k and q > k for a quotient with a positive denominator.
QuotLe(q, k) == q.num <= k * q.den
QuotGt(q, k) == q.num > k * q.den

QuotAdd(a, b) == [num |-> a.num * b.den + b.num * a.den, den |-> a.den * b.den]

\* The set of ascending sequences over a finite set of integers: sorted(S).
RECURSIVE sorted(_)
sorted(S) == IF S = {} THEN <<>> ELSE <<SetMin(S)>> \o sorted(S \ {SetMin(S)})

-----------------------------------------------------------------------------
(* Columns of a frame (a sequence of rows) *)

\* Series.sum() of the amount column.
RECURSIVE amount_sum(_)
amount_sum(x) ==
    With(x, LAMBDA v : IF v = <<>> THEN 0 ELSE Head(v).amount + amount_sum(Tail(v)))

negative(x) == SelectSeq(x, LAMBDA r : r.amount < 0)
positive(x) == SelectSeq(x, LAMBDA r : r.amount > 0)

user_ids(x) == {x[k].user_id : k \in DOMAIN x}
gids(x) == {x[k].gid : k \in DOMAIN x}

\* create_date.dt.date
date(t) == t \div TicksPerDay
dates(x) == {date(x[k].create_date) : k \in DOMAIN x}

of_user(x, u) == SelectSeq(x, LAMBDA r : r.user_id = u)
of_gid(x, g) == SelectSeq(x, LAMBDA r : r.gid = g)
of_date(x, d) == SelectSeq(x, LAMBDA r : date(r.create_date) = d)

\* load_data: the type label of a row.
type_label(amount) == IF amount < 0 THEN "Bet" ELSE "Win"

-----------------------------------------------------------------------------
(* Sidebar filters *)

min_date(x) == SetMin(dates(x))
max_date(x) == SetMax(dates(x))
unique_gids(x) == gids(x)

\* The date mask: a (start, end) tuple, a (start,) tuple while the range is
\* being picked, or a bare date (kept as the tuple's third form).
mask_date(t, range) ==
    IF range.tuple /\ Len(range.v) = 2
      THEN date(t) >= range.v[1] /\ date(t) <= range.v[2]
    ELSE IF range.tuple /\ Len(range.v) = 1
      THEN date(t) >= range.v[1]
    ELSE Len(range.v) = 1 /\ date(t) = range.v[1]

filtered(x, range, sel) ==
    SelectSeq(x, LAMBDA r : mask_date(r.create_date, range) /\ r.gid \in sel)

-----------------------------------------------------------------------------
(* Global KPIs of a filtered frame x *)

bet_df(x) == negative(x)
win_df(x) == positive(x)

spin_count(x) == Len(bet_df(x))

\* The turnover with the abs() left out.
total_turnover_signed(x) == amount_sum(bet_df(x))

total_turnover(x) == Abs(amount_sum(bet_df(x)))
avg_bet(x) ==
    IF spin_count(x) > 0 THEN Quot(total_turnover(x), spin_count(x)) ELSE Zero

total_payout(x) == amount_sum(win_df(x))
ggr(x) == total_turnover(x) - total_payout(x)

\* The RTP without its zero guard.
rtp_unguarded(x) == Quot(total_payout(x) * 100, total_turnover(x))

rtp(x) ==
    IF total_turnover(x) > 0
      THEN Quot(total_payout(x) * 100, total_turnover(x)) ELSE Zero
win_rate(x) ==
    IF spin_count(x) > 0 THEN Quot(Len(win_df(x)) * 100, spin_count(x)) ELSE Zero

total_users(x) == Cardinality(user_ids(x))
spins_per_user(x) ==
    IF total_users(x) > 0 THEN Quot(spin_count(x), total_users(x)) ELSE Zero

-----------------------------------------------------------------------------
(* Next-day retention *)

unique_dates(x) == sorted(dates(x))

\* The entry with the rate taken over the next day's users.
retention_entry_by_next(x, k) ==
    LET current_day == unique_dates(x)[k]
        next_day == unique_dates(x)[k + 1]
        users_current == user_ids(of_date(x, current_day))
        users_next == user_ids(of_date(x, next_day))
        retained == Cardinality(users_current \cap users_next)
    IN  [date |-> current_day,
         retention_rate |->
            IF Cardinality(users_next) > 0
              THEN Quot(retained * 100, Cardinality(users_next)) ELSE Zero]

\* One entry of retention_data: the loop body for position k of unique_dates.
retention_entry(x, k) ==
    LET current_day == unique_dates(x)[k]
        next_day == unique_dates(x)[k + 1]
        users_current == user_ids(of_date(x, current_day))
        users_next == user_ids(of_date(x, next_day))
        retained == Cardinality(users_current \cap users_next)
    IN  [date |-> current_day,
         retention_rate |->
            IF Cardinality(users_current) > 0
              THEN Quot(retained * 100, Cardinality(users_current)) ELSE Zero]

retention_data(x) ==
    [k \in 1..(Len(unique_dates(x)) - 1) |-> retention_entry(x, k)]

RECURSIVE rate_sum(_)
rate_sum(rd) ==
    With(rd, LAMBDA v : IF v = <<>> THEN Zero
                        ELSE QuotAdd(Head(v).retention_rate, rate_sum(Tail(v))))

\* np.mean of the rates, 0 for an empty list.
avg_retention(x) ==
    LET rd == retention_data(x)
        total == rate_sum(rd)
    IN  IF rd # <<>> THEN Quot(total.num, total.den * Len(rd)) ELSE Zero

-----------------------------------------------------------------------------
(* Per-game analysis: analyze_game_performance(x), x the rows of one gid *)

\* abs(mean of the bets), 1 for a game without bets.
avg_bet_game(x) ==
    IF bet_df(x) # <<>>
      THEN Quot(Abs(amount_sum(bet_df(x))), Len(bet_df(x))) ELSE Quot(1, 1)

\* game_win_df['amount'] / avg_bet_game, one quotient per winning row.
multipliers(x) ==
    LET game_win_df == win_df(x)
        avg == avg_bet_game(x)
    IN  [k \in DOMAIN game_win_df |->
            Quot(game_win_df[k].amount * avg.den, avg.num)]

\* The small band closed below 5 only: < for <=.
small_win_strict(m) ==
    Cardinality({k \in DOMAIN m : QuotGt(m[k], 0) /\ m[k].num < 5 * m[k].den})

small_win(m) ==
    Cardinality({k \in DOMAIN m : QuotGt(m[k], 0) /\ QuotLe(m[k], 5)})
big_win(m) ==
    Cardinality({k \in DOMAIN m : QuotGt(m[k], 5) /\ QuotLe(m[k], 20)})
mega_win(m) ==
    Cardinality({k \in DOMAIN m : QuotGt(m[k], 20) /\ QuotLe(m[k], 50)})
super_win(m) ==
    Cardinality({k \in DOMAIN m : QuotGt(m[k], 50)})

\* (winners > 0).sum() over the per-user sums of the game.
winner_count(x) ==
    Cardinality({u \in user_ids(x) : amount_sum(of_user(x, u)) > 0})

game_rtp(x) ==
    IF total_turnover(x) > 0
      THEN Quot(total_payout(x) * 100, total_turnover(x)) ELSE Zero
game_hit_rate(x) ==
    IF bet_df(x) # <<>>
      THEN Quot(Len(win_df(x)) * 100, Len(bet_df(x))) ELSE Zero
game_winner_pct(x) ==
    IF Cardinality(user_ids(x)) > 0
      THEN Quot(winner_count(x) * 100, Cardinality(user_ids(x))) ELSE Zero
avg_multiplier(x) ==
    IF multipliers(x) # <<>>
      THEN Quot(amount_sum(win_df(x)) * avg_bet_game(x).den,
                avg_bet_game(x).num * Len(win_df(x)))
      ELSE Zero

analyze_game_performance(x) ==
    LET m == multipliers(x)
    IN  [Turnover |-> total_turnover(x),
         Payout |-> total_payout(x),
         GGR |-> total_turnover(x) - total_payout(x),
         RTP |-> game_rtp(x),
         HitRate |-> game_hit_rate(x),
         WinnerPct |-> game_winner_pct(x),
         SmallWin |-> small_win(m),
         BigWin |-> big_win(m),
         MegaWin |-> mega_win(m),
         SuperWin |-> super_win(m),
         AvgMultiplier |-> avg_multiplier(x)]

\* filtered_df.groupby('gid').apply(analyze_game_performance)
game_stats_detailed(x) ==
    [g \in gids(x) |-> analyze_game_performance(of_gid(x, g))]

\* win_stats: 'Total Wins' is the sum of the four band counts of a game, and
\* each band becomes count / Total Wins * 100 (a float division: 0 / 0 is
\* NaN, no exception).
win_stats(stats) ==
    [g \in DOMAIN stats |->
        LET total == stats[g].SmallWin + stats[g].BigWin
                     + stats[g].MegaWin + stats[g].SuperWin
        IN  [SmallWin |-> Quot(stats[g].SmallWin * 100, total),
             BigWin |-> Quot(stats[g].BigWin * 100, total),
             MegaWin |-> Quot(stats[g].MegaWin * 100, total),
             SuperWin |-> Quot(stats[g].SuperWin * 100, total),
             TotalWins |-> total]]

-----------------------------------------------------------------------------
(* Single-user insight *)

\* rtp_map.get(uid, 0.0): users without turnover are dropped from the map.
option_rtp(x, u) ==
    IF total_turnover(of_user(x, u)) > 0
      THEN Quot(total_payout(of_user(x, u)) * 100,
                total_turnover(of_user(x, u)))
      ELSE Zero

u_rtp(u_df) ==
    IF total_turnover(u_df) > 0
      THEN Quot(total_payout(u_df) * 100, total_turnover(u_df)) ELSE Zero

ggr_share(u_df, global_ggr) ==
    IF global_ggr # 0
      THEN Quot((total_turnover(u_df) - total_payout(u_df)) * 100, global_ggr)
      ELSE Zero

\* The tags with the Whale test entered at the threshold (>= for >).
calculate_user_tags_ge(user_data, all_avg_bet) ==
    LET total_bet == Abs(amount_sum(negative(user_data)))
        total_pnl == amount_sum(user_data)
        size == IF total_bet * all_avg_bet.den >= all_avg_bet.num * 10
                  THEN <<"Whale">>
                ELSE IF total_bet * all_avg_bet.den * 10 < all_avg_bet.num
                  THEN <<"Minnow">>
                ELSE <<>>
    IN  size \o (IF total_pnl > 0 THEN <<"Winner">> ELSE <<"Loser">>)

\* calculate_user_tags: the list of tags that " | ".join puts in one string,
\* in order.  all_avg_bet is a quotient with a positive denominator:
\* total_bet > all_avg_bet * 10 and total_bet < all_avg_bet * 0.1, exact.
calculate_user_tags(user_data, all_avg_bet) ==
    LET total_bet == Abs(amount_sum(negative(user_data)))
        total_pnl == amount_sum(user_data)
        size == IF total_bet * all_avg_bet.den > all_avg_bet.num * 10
                  THEN <<"Whale">>
                ELSE IF total_bet * all_avg_bet.den * 10 < all_avg_bet.num
                  THEN <<"Minnow">>
                ELSE <<>>
    IN  size \o (IF total_pnl > 0 THEN <<"Winner">> ELSE <<"Loser">>)

user_insight(x, u) ==
    LET u_df == of_user(x, u)
    IN  [user |-> u,
         user_tags |-> calculate_user_tags(u_df, avg_bet(x)),
         u_bet |-> total_turnover(u_df),
         u_pnl |-> amount_sum(u_df),
         u_spins |-> Len(negative(u_df)),
         u_rtp |-> u_rtp(u_df),
         ggr_share |-> ggr_share(u_df, ggr(x))]

\* The selectbox: the chosen user, or the first option when the choice is
\* no longer among the options.
target_user_raw(x, u) == IF u \in user_ids(x) THEN u ELSE SetMin(user_ids(x))

-----------------------------------------------------------------------------
(* Raw data view *)

\* sort_values('create_date', ascending=False); rows of one timestamp keep
\* their order.
RECURSIVE sort_values_desc(_)
sort_values_desc(x) ==
    With(x, LAMBDA v :
        IF v = <<>> THEN <<>>
        ELSE With(sort_values_desc(SubSeq(v, 1, Len(v) - 1)), LAMBDA rest :
                 LET r == v[Len(v)]
                     hi == SelectSeq(rest, LAMBDA q : q.create_date >= r.create_date)
                     lo == SelectSeq(rest, LAMBDA q : q.create_date < r.create_date)
                 IN  hi \o <<r>> \o lo))

\* The table of the fourth tab: the filtered rows with the type column that
\* load_data attached, latest first.
display_df(x) ==
    sort_values_desc([k \in DOMAIN x |->
        [create_date |-> x[k].create_date, user_id |-> x[k].user_id,
         gid |-> x[k].gid, amount |-> x[k].amount,
         type |-> type_label(x[k].amount)]])

-----------------------------------------------------------------------------
(* What one script run reports for a non-empty filtered frame *)

NoReport == [empty |-> TRUE]

Report(x, u) ==
    LET stats == game_stats_detailed(x) IN
    [empty |-> FALSE,
     turnover |-> total_turnover(x),
     total_payout |-> total_payout(x),
     ggr |-> ggr(x),
     rtp |-> rtp(x),
     spin_count |-> spin_count(x),
     avg_bet |-> avg_bet(x),
     win_rate |-> win_rate(x),
     retention_data |-> retention_data(x),
     avg_retention |-> avg_retention(x),
     total_users |-> total_users(x),
     spins_per_user |-> spins_per_user(x),
     games |-> stats,
     win_stats |-> win_stats(stats),
     options |-> [w \in user_ids(x) |-> option_rtp(x, w)],
     user |-> user_insight(x, target_user_raw(x, u)),
     raw |-> display_df(x)]

-----------------------------------------------------------------------------
(* Replay: the sorted frame, the checkpoints, the fixed axes, one snapshot *)

\* A moment in grid units.
stamp(t) == t * (periods - 1)

\* sort_values('create_date'), ascending.
RECURSIVE sort_values(_)
sort_values(x) ==
    With(x, LAMBDA v :
        IF v = <<>> THEN <<>>
        ELSE With(sort_values(SubSeq(v, 1, Len(v) - 1)), LAMBDA rest :
                 LET r == v[Len(v)]
                     lo == SelectSeq(rest, LAMBDA q : q.create_date <= r.create_date)
                     hi == SelectSeq(rest, LAMBDA q : q.create_date > r.create_date)
                 IN  lo \o <<r>> \o hi))

sorted_df(x) == sort_values(x)

\* pd.date_range(min_time, max_time, periods), or the single moment.
time_steps(s) ==
    LET min_time == s[1].create_date
        max_time == s[Len(s)].create_date
    IN  IF min_time # max_time
          THEN [k \in 1..periods |->
                    stamp(min_time) + (k - 1) * (max_time - min_time)]
          ELSE <<stamp(min_time)>>

\* The checkpoint of a 0-based index.
checkpoint(steps, k) == steps[k + 1]

\* Series.searchsorted(v, side='right') over an ascending column: the number
\* of entries <= v, found by bisection of [lo, hi).
RECURSIVE bisect(_, _, _, _)
bisect(col, v, lo, hi) ==
    IF lo >= hi THEN lo
    ELSE LET mid == (lo + hi) \div 2
         IN  IF col[mid + 1] <= v
               THEN bisect(col, v, mid + 1, hi)
               ELSE bisect(col, v, lo, mid)

\* side='left': the number of entries < v.
RECURSIVE bisect_left(_, _, _, _)
bisect_left(col, v, lo, hi) ==
    IF lo >= hi THEN lo
    ELSE LET mid == (lo + hi) \div 2
         IN  IF col[mid + 1] < v
               THEN bisect_left(col, v, mid + 1, hi)
               ELSE bisect_left(col, v, lo, mid)

searchsorted_left(s, curr_time) ==
    bisect_left([k \in DOMAIN s |-> stamp(s[k].create_date)], curr_time, 0, Len(s))

searchsorted(s, curr_time) ==
    bisect([k \in DOMAIN s |-> stamp(s[k].create_date)], curr_time, 0, Len(s))

\* groupby('user_id').agg(cum_bet, cum_pnl): one row per user of the frame.
user_agg(s) ==
    {[user_id |-> u,
      cum_bet |-> Abs(amount_sum(negative(of_user(s, u)))),
      cum_pnl |-> amount_sum(of_user(s, u))] : u \in user_ids(s)}

status(cum_pnl) == IF cum_pnl > 0 THEN "Winner" ELSE "Loser"

\* The axis limits of one script run, in tenths.
max_bet_all(x) ==
    IF sorted_df(x) # <<>> /\ user_agg(sorted_df(x)) # {}
      THEN 11 * SetMax({a.cum_bet : a \in user_agg(sorted_df(x))})
    ELSE IF total_turnover(x) > 0 THEN total_turnover(x) ELSE 10000
min_pnl_all(x) ==
    IF sorted_df(x) # <<>> /\ user_agg(sorted_df(x)) # {}
      THEN 11 * SetMin({a.cum_pnl : a \in user_agg(sorted_df(x))})
    ELSE 0
max_pnl_all(x) ==
    IF sorted_df(x) # <<>> /\ user_agg(sorted_df(x)) # {}
      THEN 11 * SetMax({a.cum_pnl : a \in user_agg(sorted_df(x))})
    ELSE 0

axes(x) == [x_max |-> max_bet_all(x),
            y_min |-> min_pnl_all(x),
            y_max |-> max_pnl_all(x)]

\* What plot_snapshot returns: None, or the scatter figure.
None == [kind |-> "none"]

\* The figure left to scale its axes to the points it holds.
plot_snapshot_autoscale(s, curr_time, ax) ==
    LET idx == searchsorted(s, curr_time)
        subset_df == SubSeq(s, 1, idx)
        agg == user_agg(subset_df)
    IN  IF subset_df # <<>>
          THEN [kind |-> "chart",
                at |-> curr_time,
                points |-> {[user_id |-> a.user_id,
                             cum_bet |-> a.cum_bet,
                             cum_pnl |-> a.cum_pnl,
                             status |-> status(a.cum_pnl)] : a \in agg},
                range_x |-> <<0, 11 * SetMax({a.cum_bet : a \in agg})>>,
                range_y |-> <<11 * SetMin({a.cum_pnl : a \in agg}),
                              11 * SetMax({a.cum_pnl : a \in agg})>>]
          ELSE None

plot_snapshot(s, curr_time, ax) ==
    LET idx == searchsorted(s, curr_time)
        subset_df == SubSeq(s, 1, idx)
    IN  IF subset_df # <<>>
          THEN [kind |-> "chart",
                at |-> curr_time,
                points |-> {[user_id |-> a.user_id,
                             cum_bet |-> a.cum_bet,
                             cum_pnl |-> a.cum_pnl,
                             status |-> status(a.cum_pnl)] : a \in user_agg(subset_df)},
                range_x |-> <<0, ax.x_max>>,
                range_y |-> <<ax.y_min, ax.y_max>>]
          ELSE None

\* The placeholder: st.empty(), the "no data" notice, or a chart.
Blank == [kind |-> "blank"]
Info(curr_time) == [kind |-> "info", at |-> curr_time]
\* The page of a script run that ended in an exception (an index outside
\* the slider's bounds or outside time_steps).
Traceback == [kind |-> "exception"]

-----------------------------------------------------------------------------
(* One script run: everything between a widget event and the script's end  *)
(* or its entry into the play loop.                                        *)

\* `if 'current_time_index' not in st.session_state`: has is FALSE before
\* the first run that reaches the replay.
init_index(has, idx, n) == IF ~has THEN n - 1 ELSE idx

\* The index left as it is.
clamp_off(idx, n) == idx

\* "Limit time index bounds"
clamp(idx, n) == IF idx >= n THEN n - 1 ELSE idx

\* The handler with the restart test off by one: > for >=.
play_btn_handler_gt(idx, playing, n) ==
    [is_playing |-> ~playing,
     current_time_index |-> IF ~playing /\ idx > n - 1 THEN 0 ELSE idx]

\* The handler setting the flag where it should toggle it.
play_btn_handler_set(idx, playing, n) ==
    [is_playing |-> TRUE,
     current_time_index |-> IF idx >= n - 1 THEN 0 ELSE idx]

\* The play / pause button was clicked.
play_btn_handler(idx, playing, n) ==
    [is_playing |-> ~playing,
     current_time_index |-> IF ~playing /\ idx >= n - 1 THEN 0 ELSE idx]

\* The timeline: a progress bar while playing, else the slider, whose value
\* is the session's index unless the user moved it.
timeline(idx, playing, moved, value) ==
    IF playing THEN idx ELSE IF moved THEN value ELSE idx

\* The play run under way or just over: whether a frame was drawn, the index
\* of the last frame drawn, whether every frame drawn so far followed the
\* one before it by exactly one index, and how the run ended ("no": it has
\* not; "pause"; "end": the loop ran out).
NoRun == [any |-> FALSE, prev |-> 0, inorder |-> TRUE, ended |-> "none"]
NewRun == [any |-> FALSE, prev |-> 0, inorder |-> TRUE, ended |-> "no"]

\* The session and the page after a script run over the log d with the
\* widget values given; old is the record of the play run so far.
Script(d, range, sel, user, has, idx, playing, play_btn, moved, value, old) ==
    LET x == filtered(d, range, sel)
    IN  IF x = <<>>
          THEN [current_time_index |-> idx, is_playing |-> playing,
                pc |-> "idle", i |-> 0, fig |-> None, run |-> old,
                shown |-> Blank, report |-> NoReport]
          ELSE
            LET s == sorted_df(x)
                steps == time_steps(s)
                n == Len(steps)
                idx1 == clamp(init_index(has, idx, n), n)
                clicked == IF play_btn THEN play_btn_handler(idx1, playing, n)
                           ELSE [is_playing |-> playing, current_time_index |-> idx1]
                idx2 == timeline(clicked.current_time_index, clicked.is_playing,
                                 moved, value)
                curr == plot_snapshot(s, checkpoint(steps, idx2), axes(x))
            IN  IF clicked.is_playing
                  THEN [current_time_index |-> idx2, is_playing |-> TRUE,
                        pc |-> "loop", i |-> idx2, fig |-> None,
                        run |-> IF play_btn \/ old.ended # "no" THEN NewRun ELSE old,
                        shown |-> Blank,
                        report |-> Report(x, user)]
                  ELSE [current_time_index |-> idx2, is_playing |-> FALSE,
                        pc |-> "idle", i |-> 0, fig |-> None,
                        run |-> IF play_btn THEN [old EXCEPT !.ended = "pause"]
                                ELSE old,
                        shown |-> IF idx2 \notin 0..(n - 1) THEN Traceback
                                  ELSE IF curr.kind = "chart" THEN curr
                                  ELSE Info(checkpoint(steps, idx2)),
                        report |-> Report(x, user)]

Apply(r) ==
    /\ current_time_index' = r.current_time_index
    /\ is_playing' = r.is_playing
    /\ pc' = r.pc
    /\ i' = r.i
    /\ fig' = r.fig
    /\ run' = r.run
    /\ shown' = r.shown
    /\ report' = r.report

-----------------------------------------------------------------------------
(* State *)

Row(t, u, g, a) == [create_date |-> t, user_id |-> u, gid |-> g, amount |-> a]

\* The log of the current filter, and its checkpoints.
filtered_df == filtered(df, date_range, selected_gids)
steps_now == With(sorted_df(filtered_df), time_steps)
last_index == Len(steps_now) - 1

\* The values the sidebar widgets can take for a log d.
DateRanges(d) ==
    IF d = <<>> THEN {} ELSE
    {[tuple |-> TRUE, v |-> <<a, b>>] :
        a \in min_date(d)..max_date(d), b \in min_date(d)..max_date(d)}
    \cup {[tuple |-> TRUE, v |-> <<a>>] : a \in min_date(d)..max_date(d)}
ValidRange(r) == Len(r.v) = 2 => r.v[1] <= r.v[2]
DefaultRange(d) == [tuple |-> TRUE, v |-> <<min_date(d), max_date(d)>>]

\* A file is uploaded: the first script run, with every widget at its
\* default and nothing yet in the session.
Upload(d) ==
    /\ df = <<>>
    /\ df' = d
    /\ date_range' = DefaultRange(d)
    /\ selected_gids' = unique_gids(d)
    /\ target_user' = SetMin(user_ids(d))
    /\ \E r \in {Script(d, DefaultRange(d), unique_gids(d), SetMin(user_ids(d)),
                       FALSE, 0, FALSE, FALSE, FALSE, 0, NoRun)} : Apply(r)

\* Logs for the replay, rows out of time order.  The first: two games on one
\* day, a user who is ahead midway and behind at the end.  The second: two
\* days, and the rows of game 1 share one timestamp.
PlaybackLogs ==
    { <<Row(2, 1, 2, -45), Row(0, 1, 1, -10), Row(3, 2, 2, -5), Row(1, 1, 1, 50)>>,
      <<Row(TicksPerDay + 1, 1, 2, -1), Row(0, 1, 1, -10), Row(0, 2, 1, 5)>> }

\* No file uploaded yet: the welcome page, an empty session.
Init ==
    /\ df = <<>>
    /\ date_range = [tuple |-> TRUE, v |-> <<>>]
    /\ selected_gids = {}
    /\ target_user = 0
    /\ current_time_index = 0
    /\ is_playing = FALSE
    /\ pc = "idle"
    /\ i = 0
    /\ fig = None
    /\ run = NoRun
    /\ shown = Blank
    /\ report = NoReport

-----------------------------------------------------------------------------
(* Events.  A widget event reruns the script; a running script takes it at *)
(* its next element call, which in the play loop is placeholder.plotly_chart. *)

Rendered == filtered_df # <<>>
Yield == pc = "idle" \/ (pc = "chart" /\ fig.kind = "chart")

\* The play / pause button.
PressButton ==
    /\ Yield /\ Rendered
    /\ \E r \in {Script(df, date_range, selected_gids, target_user, TRUE,
                    current_time_index, is_playing, TRUE, FALSE, 0, run)} : Apply(r)
    /\ UNCHANGED <<df, date_range, selected_gids, target_user>>

\* The positions the slider is dragged to, of n.
SeekTargets(n) == {0, 1, n \div 2, n - 2, n - 1} \cap 0..(n - 1)

\* The timeline slider, shown while paused, is dragged to v.
Seek ==
    /\ pc = "idle" /\ Rendered /\ ~is_playing
    /\ \E v \in SeekTargets(last_index + 1) :
          /\ v # current_time_index
          /\ \E r \in {Script(df, date_range, selected_gids, target_user, TRUE,
                          current_time_index, is_playing, FALSE, TRUE, v, NoRun)} : Apply(r)
    /\ UNCHANGED <<df, date_range, selected_gids, target_user>>

\* The speed slider: a rerun that changes nothing the session keeps.
SetSpeed ==
    /\ Yield /\ Rendered
    /\ \E r \in {Script(df, date_range, selected_gids, target_user, TRUE,
                    current_time_index, is_playing, FALSE, FALSE, 0, run)} : Apply(r)
    /\ UNCHANGED <<df, date_range, selected_gids, target_user>>

\* The single-user selectbox.
SelectUser(u) ==
    /\ Yield /\ Rendered
    /\ u \in user_ids(filtered_df) /\ u # target_user
    /\ target_user' = u
    /\ \E r \in {Script(df, date_range, selected_gids, u, TRUE,
                    current_time_index, is_playing, FALSE, FALSE, 0, run)} : Apply(r)
    /\ UNCHANGED <<df, date_range, selected_gids>>

\* The sidebar: another date range or game selection.
SetFilter(range, sel) ==
    /\ df # <<>> /\ Yield
    /\ ValidRange(range)
    /\ <<range, sel>> # <<date_range, selected_gids>>
    /\ date_range' = range
    /\ selected_gids' = sel
    /\ target_user' = IF filtered(df, range, sel) # <<>>
                        THEN target_user_raw(filtered(df, range, sel), target_user)
                        ELSE target_user
    /\ \E r \in {Script(df, range, sel, target_user, TRUE,
                    current_time_index, is_playing, FALSE, FALSE, 0, NoRun)} : Apply(r)
    /\ UNCHANGED df

-----------------------------------------------------------------------------
(* The play loop *)

\* The loop stepping by two.
loop_next_skip(k) == k + 2

\* The loop that never moves on.
loop_next_stay(k) == k

\* for i in range(current_time_index, len(time_steps)): the next value.
loop_next(k) == k + 1

\* One pass through the loop body up to the chart call.
LoopIter ==
    /\ pc = "loop" /\ i < Len(steps_now) /\ is_playing
    /\ current_time_index' = i
    /\ fig' = With(sorted_df(filtered_df),
                    LAMBDA s : plot_snapshot(s, checkpoint(time_steps(s), i),
                                             axes(filtered_df)))
    /\ pc' = "chart"
    /\ UNCHANGED <<df, date_range, selected_gids, target_user, is_playing, i,
                   run, shown, report>>

\* placeholder.plotly_chart(fig), time.sleep, and on to the next i.
PlotChart ==
    /\ pc = "chart"
    /\ shown' = IF fig.kind = "chart" THEN fig ELSE shown
    /\ run' = IF fig.kind = "chart"
                THEN [run EXCEPT !.any = TRUE, !.prev = i,
                                 !.inorder = run.inorder
                                             /\ (run.any => i = run.prev + 1)]
                ELSE run
    /\ i' = loop_next(i)
    /\ fig' = None
    /\ pc' = "loop"
    /\ UNCHANGED <<df, date_range, selected_gids, target_user,
                   current_time_index, is_playing, report>>

\* The loop is over (exhausted, or the flag was found cleared):
\* is_playing = False, st.rerun().
EndPlay ==
    /\ pc = "loop" /\ (i >= Len(steps_now) \/ ~is_playing)
    /\ \E r \in {Script(df, date_range, selected_gids, target_user, TRUE,
                    current_time_index, FALSE, FALSE, FALSE, 0,
                    [run EXCEPT !.ended = "end"])} : Apply(r)
    /\ UNCHANGED <<df, date_range, selected_gids, target_user>>

Next ==
    \/ df = <<>> /\ \E d \in PlaybackLogs : Upload(d)
    \/ PressButton
    \/ Seek
    \/ SetSpeed
    \/ \E range \in DateRanges(df), sel \in SUBSET unique_gids(df) :
          SetFilter(range, sel)
    \/ LoopIter
    \/ PlotChart
    \/ EndPlay

Spec == Init /\ [][Next]_vars

\* Play runs that nobody pauses: the button is pressed only while paused
\* and the filter is changed only while paused.  The script thread goes on
\* whenever no rerun is pending: the loop body and the end of the loop run
\* once they can, and a chart call that is reached again and again is not
\* pre-empted by a rerun every time.
NextPlay ==
    \/ df = <<>> /\ \E d \in PlaybackLogs : Upload(d)
    \/ ~is_playing /\ PressButton
    \/ Seek
    \/ SetSpeed
    \/ ~is_playing /\ \E range \in DateRanges(df), sel \in SUBSET unique_gids(df) :
                          SetFilter(range, sel)
    \/ LoopIter
    \/ PlotChart
    \/ EndPlay

SpecPlay ==
    /\ Init /\ [][NextPlay]_vars
    /\ WF_vars(LoopIter) /\ SF_vars(PlotChart) /\ WF_vars(EndPlay)

-----------------------------------------------------------------------------
(* The analytics and the snapshot over every small log *)

\* The logs of at most MaxTx rows drawn from a set of rows.
Logs(R) == UNION {[1..k -> R] : k \in 1..MaxTx}

\* Rows in one fixed order, for the metrics that do not read the order.
Before(r, q) ==
    \/ r.create_date < q.create_date
    \/ /\ r.create_date = q.create_date
       /\ \/ r.amount < q.amount
          \/ /\ r.amount = q.amount
             /\ \/ r.user_id < q.user_id
                \/ r.user_id = q.user_id /\ r.gid <= q.gid
Ordered(d) == \A k \in 1..(Len(d) - 1) : Before(d[k], d[k + 1])

Users == {1, 2}
Games == {1, 2}

\* Bets of 1 and 2, a zero row, and wins that are 5 and 50 times a bet.
Amounts == {-2, -1, 0, 2, 10, 100}
KpiRows == {Row(0, u, g, a) : u \in Users, g \in Games, a \in Amounts}
KpiLogs == {d \in Logs(KpiRows) : Ordered(d)}

NextKpi ==
    \/ df = <<>> /\ \E d \in KpiLogs : Upload(d)
    \/ \E u \in Users : SelectUser(u)
SpecKpi == Init /\ [][NextKpi]_vars

\* Three days: the last tick of the first, the first and the last tick of
\* the second, the first tick of the third.
CohortTimes == {TicksPerDay - 1, TicksPerDay, 2 * TicksPerDay - 1, 2 * TicksPerDay}
CohortRows == {Row(t, u, 1, -1) : t \in CohortTimes, u \in Users}
CohortLogs == {d \in Logs(CohortRows) : Ordered(d)}

NextCohort ==
    \/ df = <<>> /\ \E d \in CohortLogs : Upload(d)
    \/ \E range \in DateRanges(df) : SetFilter(range, selected_gids)
SpecCohort == Init /\ [][NextCohort]_vars

\* Rows in any file order, at two ticks with a gap.
SnapRows ==
    {Row(t, ua[1], 1, ua[2]) : t \in {0, 2}, ua \in {<<1, -2>>, <<1, 3>>, <<2, -2>>}}

\* Moments before, at, between and after the ticks.
QueryTimes == {stamp(k) : k \in -1..3} \cup {stamp(0) + 1, stamp(2) - 1}

\* plot_snapshot at a moment of the caller's choice, shown as the paused
\* page shows it.
Snapshot(t) ==
    /\ pc = "idle" /\ Rendered
    /\ shown' = LET f == plot_snapshot(sorted_df(filtered_df), t, axes(filtered_df))
                IN  IF f.kind = "chart" THEN f ELSE Info(t)
    /\ UNCHANGED <<df, date_range, selected_gids, target_user,
                   current_time_index, is_playing, pc, i, fig, run, report>>
SnapLogs == Logs(SnapRows)

NextSnap ==
    \/ df = <<>> /\ \E d \in SnapLogs : Upload(d)
    \/ \E t \in QueryTimes : Snapshot(t)
SpecSnap == Init /\ [][NextSnap]_vars

\* The most bets one user places in a log of the tag specification.
MaxBets == 11

\* k rows of one user, each of amount a.
Repeat(u, a, k) == [j \in 1..k |-> Row(0, u, 1, a)]

\* Logs for the tags: user 1 places no, one or about ten bets of 1, 19 or
\* 20 and may win 25; user 2 places no bet or a bet of 1 and may win 1 or 2.
TagLogs ==
    {Repeat(1, -a, k) \o Repeat(1, 25, v) \o Repeat(2, -1, b) \o Repeat(2, w, IF w = 0 THEN 0 ELSE 1) :
        a \in {1, 19, 20}, k \in {0, 1} \cup (MaxBets - 2)..MaxBets,
        v \in {0, 1}, b \in {0, 1}, w \in {0, 1, 2}} \ {<<>>}

NextTags ==
    \/ df = <<>> /\ \E d \in TagLogs : Upload(d)
    \/ \E u \in Users : SelectUser(u)
SpecTags == Init /\ [][NextTags]_vars

-----------------------------------------------------------------------------
(* Reference values, taken from the rows by position *)

RECURSIVE SumAt(_, _)
SumAt(x, K) ==
    IF K = {} THEN 0
    ELSE LET k == CHOOSE j \in K : TRUE
         IN  x[k].amount + SumAt(x, K \ {k})

RowsOf(x, u) == {k \in DOMAIN x : x[k].user_id = u}
BetOf(x, K) == - SumAt(x, {k \in K : x[k].amount < 0})

\* The final aggregates of the current filter.
FinalBets == {BetOf(filtered_df, RowsOf(filtered_df, u)) : u \in user_ids(filtered_df)}
FinalPnls == {SumAt(filtered_df, RowsOf(filtered_df, u)) : u \in user_ids(filtered_df)}

SameFilter == date_range' = date_range /\ selected_gids' = selected_gids

-----------------------------------------------------------------------------
(* Replay claims *)

\* C1: a click on the button while paused starts a play run, from index 0
\* when the index stood at the last checkpoint and from the index itself
\* when it stood below; a click while playing (pause) leaves the index alone.
PlayRestartsAtEnd ==
    [][PressButton =>
         IF ~is_playing
           THEN /\ is_playing' /\ pc' = "loop" /\ ~run'.any
                /\ i' = current_time_index'
                /\ current_time_index >= last_index => current_time_index' = 0
                /\ current_time_index < last_index =>
                      current_time_index' = current_time_index
           ELSE /\ ~is_playing'
                /\ current_time_index' = current_time_index]_vars

\* A play run about to begin at 0 on a 100-point timeline, the first frame
\* built and not yet drawn.
PlayRestartsAtEndWitness ==
    /\ is_playing /\ pc = "chart" /\ ~run.any /\ run.ended = "no"
    /\ current_time_index = 0 /\ last_index = periods - 1

\* C2: the frames of a play run are drawn in index order without a gap: the
\* first is the frame of the index the run starts at, each later one follows
\* the one before it by exactly one, and a run that reaches the end of the
\* loop has drawn the last checkpoint.
FramesInOrder ==
    /\ run.inorder
    /\ pc = "loop" /\ ~run.any => i = current_time_index
    /\ pc = "loop" /\ run.any => i = run.prev + 1
    /\ pc = "chart" => /\ i = current_time_index
                       /\ fig.kind = "chart"
                       /\ fig.at = checkpoint(steps_now, i)
                       /\ run.any => i = run.prev + 1
    /\ run.any /\ Rendered => run.prev <= last_index
    /\ run.ended = "end" /\ Rendered => run.any /\ run.prev = last_index

\* A run that played a 100-point timeline out.
FramesInOrderWitness ==
    /\ run.ended = "end" /\ run.prev = periods - 1 /\ pc = "idle"

\* C3: a pause stops the run where it stands: the click clears the flag and
\* ends the script run with the index unchanged and the snapshot of that
\* index on the page, no further frame is drawn, and while paused under one
\* filter the index moves only on the next play or seek.
PauseFreezes ==
    /\ [][(PressButton /\ is_playing) =>
            /\ ~is_playing' /\ pc' = "idle"
            /\ current_time_index' = current_time_index
            /\ run'.ended = "pause"
            /\ run'.any = run.any /\ run'.prev = run.prev
            /\ shown'.kind = "chart"
            /\ shown'.at = checkpoint(steps_now, current_time_index)]_vars
    /\ [][(run.ended = "pause" /\ run'.ended = "pause") =>
            /\ run' = run
            /\ SameFilter => /\ current_time_index' = current_time_index
                             /\ shown' = shown]_vars
    /\ [][(~is_playing /\ SameFilter
           /\ current_time_index' # current_time_index) =>
            (PressButton \/ Seek)]_vars
    /\ [](run.ended = "pause" => ~is_playing /\ pc = "idle")

\* Paused in the middle of a run, frames 0 .. 49 drawn, the index at 50.
PauseFreezesWitness ==
    /\ run.ended = "pause" /\ run.any /\ run.prev = 49
    /\ current_time_index = 50 /\ ~is_playing /\ pc = "idle"
    /\ shown.kind = "chart" /\ shown.at = checkpoint(steps_now, 50)

\* C4: after a change of the filter that leaves rows, the index is the one
\* a new session starts with, the last checkpoint of the new filter.
FilterResetsIndex ==
    [][\A range \in DateRanges(df), sel \in SUBSET unique_gids(df) :
         (SetFilter(range, sel) /\ filtered(df, range, sel) # <<>>) =>
            current_time_index' =
                Len(time_steps(sorted_df(filtered(df, range, sel)))) - 1]_vars

\* C5: every figure, drawn or built, has the axis ranges of the whole
\* filtered log: x from 0 to 1.1 times the largest final cum_bet, y from 1.1
\* times the smallest to 1.1 times the largest final cum_pnl (in tenths).
AxesFixed ==
    \A f \in {shown, fig} :
        f.kind = "chart" =>
            /\ f.range_x = <<0, 11 * SetMax(FinalBets)>>
            /\ f.range_y = <<11 * SetMin(FinalPnls), 11 * SetMax(FinalPnls)>>

\* A frame of a play run before the last whose aggregates are not the
\* final ones.
AxesFixedWitness ==
    /\ pc = "idle" /\ run.ended = "pause" /\ shown.kind = "chart"
    /\ current_time_index < last_index
    /\ {p.cum_pnl : p \in shown.points} # FinalPnls

-----------------------------------------------------------------------------
(* Snapshot and analytics claims *)

\* The rows of x up to a moment, by position.
UpTo(x, t) == {k \in DOMAIN x : stamp(x[k].create_date) <= t}

\* C6: a snapshot at t holds exactly the users with a row at or before t,
\* each with the bets and the sum of those rows only; rows at t itself are
\* in, rows after t are out; there is no figure exactly when no row is at or
\* before t.
SliceUpTo ==
    \A x \in {filtered_df} :
        /\ shown.kind = "chart" =>
              \A K \in {UpTo(x, shown.at)} :
                  /\ K # {}
                  /\ {[user_id |-> p.user_id, cum_bet |-> p.cum_bet,
                       cum_pnl |-> p.cum_pnl] : p \in shown.points}
                     = {[user_id |-> u,
                         cum_bet |-> BetOf(x, K \cap RowsOf(x, u)),
                         cum_pnl |-> SumAt(x, K \cap RowsOf(x, u))] :
                            u \in {x[k].user_id : k \in K}}
        /\ shown.kind = "info" => UpTo(x, shown.at) = {}
        /\ x # <<>> => shown.kind \in {"chart", "info"}

\* A snapshot at a moment that is the timestamp of one row and earlier than
\* another's.
SliceUpToWitness ==
    /\ shown.kind = "chart"
    /\ \E k \in DOMAIN filtered_df : stamp(filtered_df[k].create_date) = shown.at
    /\ \E k \in DOMAIN filtered_df : stamp(filtered_df[k].create_date) > shown.at

Bets(x) == {k \in DOMAIN x : x[k].amount < 0}
Wins(x) == {k \in DOMAIN x : x[k].amount > 0}
GameRows(x, g) == {k \in DOMAIN x : x[k].gid = g}

\* C7: the turnover reported is the absolute sum of the negative amounts and
\* is >= 0, the payout is the sum of the positive amounts, and the GGR is
\* their difference.
GgrIdentity ==
    ~report.empty =>
        \A x \in {filtered_df} :
            /\ report.turnover >= 0
            /\ report.turnover = - SumAt(x, Bets(x))
            /\ report.total_payout = SumAt(x, Wins(x))
            /\ report.ggr = report.turnover - report.total_payout

\* A log with bets and wins.
GgrIdentityWitness ==
    /\ ~report.empty /\ report.turnover > 0 /\ report.total_payout > 0
    /\ report.ggr < 0

\* C8: every ratio of the report is defined, and is 0 when its denominator
\* is 0.
RatiosGuarded ==
    ~report.empty =>
        \A x \in {filtered_df} : \A B \in {Bets(x)} :
            /\ Defined(report.rtp) /\ Defined(report.avg_bet)
            /\ Defined(report.win_rate) /\ Defined(report.spins_per_user)
            /\ SumAt(x, B) = 0 => IsZero(report.rtp)
            /\ B = {} => IsZero(report.avg_bet) /\ IsZero(report.win_rate)
            /\ user_ids(x) = {} => IsZero(report.spins_per_user)
            /\ \A g \in DOMAIN report.games :
                  /\ Defined(report.games[g].RTP)
                  /\ Defined(report.games[g].HitRate)
                  /\ Defined(report.games[g].WinnerPct)
                  /\ SumAt(x, B \cap GameRows(x, g)) = 0 =>
                        IsZero(report.games[g].RTP)
                  /\ B \cap GameRows(x, g) = {} => IsZero(report.games[g].HitRate)
            /\ \A w \in DOMAIN report.options :
                  /\ Defined(report.options[w])
                  /\ SumAt(x, B \cap RowsOf(x, w)) = 0 => IsZero(report.options[w])
            /\ Defined(report.user.u_rtp)
            /\ SumAt(x, B \cap RowsOf(x, report.user.user)) = 0 =>
                  IsZero(report.user.u_rtp)
            /\ Defined(report.user.ggr_share)
            /\ SumAt(x, B) + SumAt(x, Wins(x)) = 0 => IsZero(report.user.ggr_share)

\* A log of wins only, and one whose bets and wins cancel.
RatiosGuardedWitness ==
    /\ ~report.empty /\ Bets(filtered_df) # {} /\ Wins(filtered_df) # {}
    /\ report.ggr = 0
    /\ \E g \in DOMAIN report.games :
          Bets(filtered_df) \cap GameRows(filtered_df, g) = {}
    /\ Bets(filtered_df) \cap RowsOf(filtered_df, report.user.user) = {}

\* A game of x by its rows: the wins, the number of bets and their total.
GameOf(x, g) ==
    [wins |-> {x[j].amount : j \in Wins(x) \cap GameRows(x, g)},
     count |-> Cardinality(Wins(x) \cap GameRows(x, g)),
     bets |-> Cardinality(Bets(x) \cap GameRows(x, g)),
     staked |-> - SumAt(x, Bets(x) \cap GameRows(x, g))]

\* A win a is at most k times the average bet of the game q, 1 when the game
\* has no bet.
AtMost(q, a, k) ==
    IF q.bets = 0 THEN a <= k ELSE a * q.bets <= k * q.staked

\* The wins of x in game g that are above lo and at most hi average bets.
InBand(x, q, g, lo, hi) ==
    Cardinality({j \in Wins(x) \cap GameRows(x, g) :
                    ~AtMost(q, x[j].amount, lo) /\ AtMost(q, x[j].amount, hi)})

\* C9: in every game each win is in one band: small up to 5 times the
\* average bet (5 included), big up to 20, mega up to 50 (50 included),
\* super above; the four counts add up to the game's wins.
BandsPartition ==
    ~report.empty =>
        \A x \in {filtered_df} : \A g \in DOMAIN report.games :
            \A q \in {GameOf(x, g)} :
                /\ report.games[g].SmallWin = InBand(x, q, g, 0, 5)
                /\ report.games[g].BigWin = InBand(x, q, g, 5, 20)
                /\ report.games[g].MegaWin = InBand(x, q, g, 20, 50)
                /\ report.games[g].SuperWin =
                      Cardinality({j \in Wins(x) \cap GameRows(x, g) :
                                      ~AtMost(q, x[j].amount, 50)})
                /\ report.games[g].SmallWin + report.games[g].BigWin
                      + report.games[g].MegaWin + report.games[g].SuperWin
                   = q.count

\* A game with a win of exactly 5 and a win of exactly 50 average bets.
BandsPartitionWitness ==
    /\ ~report.empty
    /\ \E g \in DOMAIN report.games : \E q \in {GameOf(filtered_df, g)} :
          /\ q.bets > 0
          /\ 10 \in q.wins /\ AtMost(q, 10, 5) /\ ~AtMost(q, 10, 4)
          /\ 100 \in q.wins /\ AtMost(q, 100, 50) /\ ~AtMost(q, 100, 49)
          /\ report.games[g].SmallWin = 1 /\ report.games[g].MegaWin = 1

ActiveOn(x, d) == {x[k].user_id : k \in {j \in DOMAIN x : date(x[j].create_date) = d}}
LaterDates(D, d) == {e \in D : e > d}

TagsRule ==
    ~report.empty =>
        \A x \in {filtered_df} : \A K \in {RowsOf(x, report.user.user)} :
        \A n \in {Cardinality(Bets(x))} : \A T \in {- SumAt(x, Bets(x))} :
        \A bet \in {BetOf(x, K)} : \A tags \in {report.user.user_tags} :
            /\ Len(tags) \in {1, 2}
            /\ tags[Len(tags)] = (IF SumAt(x, K) > 0 THEN "Winner" ELSE "Loser")
            /\ Len(tags) = 2 => tags[1] \in {"Whale", "Minnow"}
            /\ (Len(tags) = 2 /\ tags[1] = "Whale") <=> (n > 0 /\ bet * n > 10 * T)
            /\ (Len(tags) = 2 /\ tags[1] = "Minnow") <=> (n > 0 /\ 10 * bet * n < T)
            /\ ~(bet * n > 10 * T /\ 10 * bet * n < T)

\* A user whose bets are more than ten average bets, and who is ahead.
TagsRuleWitness ==
    /\ ~report.empty
    /\ report.user.user_tags = <<"Whale", "Winner">>
    /\ user_ids(filtered_df) = {1, 2}

\* C12: a row of amount 0 counts neither as a bet nor as a win: not in the
\* spin count or the win count of the KPIs, not in those of its game, and
\* its type label in the raw table is neither Bet nor Win; the raw table
\* holds every filtered row, the rows of amount 0 included.
ZeroUnclassified ==
    ~report.empty =>
        \A x \in {filtered_df} : \A B \in {Bets(x)} : \A W \in {Wins(x)} :
            /\ report.spin_count = Cardinality(B)
            /\ report.win_rate = (IF B = {} THEN Zero
                                  ELSE Quot(Cardinality(W) * 100, Cardinality(B)))
            /\ \A g \in DOMAIN report.games :
                  report.games[g].HitRate =
                      (IF B \cap GameRows(x, g) = {} THEN Zero
                       ELSE Quot(Cardinality(W \cap GameRows(x, g)) * 100,
                                 Cardinality(B \cap GameRows(x, g))))
            /\ Len(report.raw) = Len(x)
            /\ \A k \in DOMAIN x :
                  Cardinality({j \in DOMAIN report.raw :
                                 Row(report.raw[j].create_date, report.raw[j].user_id,
                                     report.raw[j].gid, report.raw[j].amount) = x[k]})
                  = Cardinality({j \in DOMAIN x : x[j] = x[k]})
            /\ \A j \in DOMAIN report.raw :
                  report.raw[j].amount = 0 => report.raw[j].type \notin {"Bet", "Win"}

\* C13: for every game the four band percentages are defined numbers: each
\* is the band's count over the game's number of wins, times 100; they add
\* up to 100 when the game has a win, and each is 0 when it has none.
BandPercentages ==
    ~report.empty =>
        \A x \in {filtered_df} : \A g \in DOMAIN report.win_stats :
        \A p \in {report.win_stats[g]} : \A c \in {report.games[g]} :
        \A wins \in {Cardinality(Wins(x) \cap GameRows(x, g))} :
            /\ \A q \in {p.SmallWin, p.BigWin, p.MegaWin, p.SuperWin} : Defined(q)
            /\ p.SmallWin.num * wins = c.SmallWin * 100 * p.SmallWin.den
            /\ p.BigWin.num * wins = c.BigWin * 100 * p.BigWin.den
            /\ p.MegaWin.num * wins = c.MegaWin * 100 * p.MegaWin.den
            /\ p.SuperWin.num * wins = c.SuperWin * 100 * p.SuperWin.den
            /\ wins > 0 =>
                  \A t \in {QuotAdd(QuotAdd(p.SmallWin, p.BigWin),
                                    QuotAdd(p.MegaWin, p.SuperWin))} :
                      t.num = 100 * t.den
            /\ wins = 0 =>
                  \A q \in {p.SmallWin, p.BigWin, p.MegaWin, p.SuperWin} : IsZero(q)

\* A play run has played out: the flag is down, the last frame drawn by the
\* loop and the frame on the page are those of the last checkpoint, and the
\* index is the last index.
PlayedOut ==
    /\ ~is_playing /\ pc = "idle" /\ run.ended = "end" /\ Rendered
    /\ run.any /\ run.prev = last_index
    /\ current_time_index = last_index
    /\ shown.kind = "chart" /\ shown.at = checkpoint(steps_now, last_index)

\* C14: a play run that is not paused plays out, from whatever index it
\* started; a press of the button after it starts the next run at index 0.
PlayFinishes ==
    /\ is_playing ~> PlayedOut
    /\ [][(PlayedOut /\ PressButton) =>
            (is_playing' /\ current_time_index' = 0 /\ i' = 0)]_vars

\* A run on a 100-point timeline that has played out.
PlayFinishesWitness ==
    /\ PlayedOut /\ last_index = periods - 1

\* C15: whatever was played, paused, sought or filtered, the index is one
\* of the checkpoints of the current filter wherever a checkpoint is looked
\* up: the frame the loop builds and the frame of the paused page are those
\* of an index within 0 .. number of checkpoints - 1, and no script run
\* ends in an exception.
IndexInRange ==
    /\ shown.kind # "exception"
    /\ Rendered =>
          \A steps \in {steps_now} :
              /\ current_time_index \in 0..(Len(steps) - 1)
              /\ pc = "loop" => i \in current_time_index..Len(steps)
              /\ pc = "chart" => /\ i \in 0..(Len(steps) - 1)
                                 /\ fig.at = checkpoint(steps, i)
              /\ pc = "idle" => shown.at = checkpoint(steps, current_time_index)

\* A filter of one checkpoint chosen on a log whose full timeline has 100,
\* the index down from 99 to 0.
IndexInRangeWitness ==
    /\ Rendered /\ pc = "idle" /\ shown.kind = "chart"
    /\ last_index = 0 /\ current_time_index = 0
    /\ Len(With(sorted_df(df), time_steps)) = periods

\* The points of a figure that lie within the figure's axis ranges (points
\* in units, ranges in tenths).
Inside(f) ==
    {p \in f.points : /\ 0 <= 10 * p.cum_bet
                      /\ 10 * p.cum_bet <= f.range_x[2]
                      /\ f.range_y[1] <= 10 * p.cum_pnl
                      /\ 10 * p.cum_pnl <= f.range_y[2]}

\* C16: at every checkpoint of a filter, every user of the snapshot has
\* its point inside the fixed axis ranges, 0 <= cum_bet <= x_max and
\* y_min <= cum_pnl <= y_max, on the frames of the play loop and on the
\* paused page alike.
PointsInside ==
    /\ shown.kind = "chart" => Inside(shown) = shown.points
    /\ fig.kind = "chart" => Inside(fig) = fig.points

====
